---- MODULE Spec2Model ----
(***************************************************************************)
(* RouteStream<StreamGenerateContent> of src/src/stream.rs: the            *)
(* incremental parser of a top-level JSON array of response objects that   *)
(* arrives as arbitrary byte chunks, driven by Stream::poll_next.          *)
(*                                                                         *)
(* Bytes are modelled by a small alphabet of byte classes:                 *)
(*   "["  ","  "]"   the structural characters of the array                *)
(*   " "             one ASCII whitespace byte                             *)
(*   "W"             a run of PadBytes ASCII whitespace bytes, kept as one *)
(*                   element so that the cursor can pass the drain         *)
(*                   threshold of 2048 bytes within small bounds           *)
(*   "{"  "}"        the braces of a response object                       *)
(*   "a"  "b"        the bytes of a member of a response object            *)
(*   "x"             a byte that is not valid JSON at its place            *)
(* The buffer is a sequence of such elements; pos counts elements (it is   *)
(* 0-based as in the code) and BytePos gives the cursor in bytes.          *)
(*                                                                         *)
(* Also the poll_next of the RouteStream of src/src/client.rs, run next to *)
(* the one of stream.rs on the same transport, and the history of the Chat *)
(* of src/src/chat.rs under its send calls.                                *)
(***************************************************************************)
EXTENDS Integers, Sequences, FiniteSets, TLC

VARIABLES
    input,      \* the bytes the server sends in total (the response body)
    sent,       \* how many of them the transport has delivered
    tstate,     \* the transport: "open", "ended" (answered None), "failed"
    buffer,     \* RouteStream.buffer
    pos,        \* RouteStream.pos
    state,      \* RouteStream.state
    out,        \* the Ready values poll_next has returned, oldest first
    ret,        \* how the last loop iteration left poll_next
    pended,     \* the transport has answered Pending at least once
    chunking,   \* the non-empty chunks delivered so far: "none", "one", "several"
    empties,    \* the transport has delivered an empty chunk
    alt,        \* the same stream run with other drain thresholds
    history,    \* Chat.history
    request,    \* the contents of the request a send call is awaiting
    reply       \* what the last send call returned to its caller

chatvars == <<history, request, reply>>

vars == <<input, sent, tstate, buffer, pos, state, out, ret, pended, chunking, empties, alt,
          history, request, reply>>

----------------------------------------------------------------------------
(* Bounds *)

MaxObjs == 2        \* most elements of a generated array
MaxFree == 2        \* longest arbitrary byte string among the inputs
MaxOut == 4         \* most Ready values recorded for one stream
PadBytes == 2048    \* bytes of whitespace that one "W" stands for

(* Program constant: `if self.pos > 2048` *)
DrainThreshold == 2048

(* The housekeeping drain of a run: at the cursor positions above limit,  *)
(* or never.                                                               *)
DrainAbove(n) == [on |-> TRUE, limit |-> n]
NoDrain == [on |-> FALSE, limit |-> 0]

----------------------------------------------------------------------------
(* Bytes *)

Alphabet == {"[", ",", "]", " ", "W", "{", "}", "a", "b", "x"}

is_ascii_whitespace(b) == b \in {" ", "W"}

ByteLen(b) == IF b = "W" THEN PadBytes ELSE 1

RECURSIVE ByteCount(_)
ByteCount(s) == IF s = <<>> THEN 0 ELSE ByteLen(Head(s)) + ByteCount(Tail(s))

(* ParseState *)
CannotAdvance == "CannotAdvance"
ReadingChars == "ReadingChars"
ReadingValue == "ReadingValue"
Finished == "Finished"
ParseState == {CannotAdvance, ReadingChars, ReadingValue, Finished}

(* A RouteStream value: the fields the parser owns. *)
RouteStream(b, p, st) == [buffer |-> b, pos |-> p, state |-> st]

(* The cursor in bytes. *)
BytePos(s) == ByteCount(SubSeq(s.buffer, 1, s.pos))

(* buffer[pos..] *)
Rest(s) == SubSeq(s.buffer, s.pos + 1, Len(s.buffer))

----------------------------------------------------------------------------
(* serde_json::Deserializer::from_slice(..).into_iter::<types::Response>() *)
(* and one call of next() on it.  Response is a struct with the required   *)
(* field `candidates`: an object needs at least one member, a map without  *)
(* members is a data error.  A struct may also come as a sequence, whose   *)
(* elements the alphabet cannot spell: after "[" only end of input (Eof)   *)
(* or an error can follow.                                                 *)

DeNone == [k |-> "None", value |-> <<>>, offset |-> 0]
DeEof == [k |-> "Eof", value |-> <<>>, offset |-> 0]
DeErr == [k |-> "Err", value |-> <<>>, offset |-> 0]
DeValue(v, n) == [k |-> "Value", value |-> v, offset |-> n]

RECURSIVE DeScan(_, _, _, _)
DeScan(sl, i, q, acc) ==
    IF i > Len(sl)
    THEN IF q = "start" THEN DeNone ELSE DeEof
    ELSE LET b == sl[i] IN
         IF is_ascii_whitespace(b) THEN DeScan(sl, i + 1, q, acc)
         ELSE CASE q = "start" ->
                    IF b = "{" THEN DeScan(sl, i + 1, "obj0", acc)
                    ELSE IF b = "[" THEN DeScan(sl, i + 1, "seq", acc)
                    ELSE DeErr
                [] q = "obj0" ->
                    IF b \in {"a", "b"} THEN DeScan(sl, i + 1, "obj1", Append(acc, b))
                    ELSE DeErr
                [] q = "obj1" ->
                    IF b \in {"a", "b"} THEN DeScan(sl, i + 1, "obj1", Append(acc, b))
                    ELSE IF b = "}" THEN DeValue(acc, i)
                    ELSE DeErr
                [] OTHER -> DeErr

de_next(sl) == DeScan(sl, 1, "start", <<>>)

----------------------------------------------------------------------------
(* ParseOutcome, and Option<ParseOutcome> with NoOutcome for None *)

NoOutcome == [k |-> "NoOutcome", value |-> <<>>]
OkSome(v) == [k |-> "OkSome", value |-> v]
OkNone == [k |-> "OkNone", value |-> <<>>]
OutErr == [k |-> "Err", value |-> <<>>]
OutEof == [k |-> "Eof", value |-> <<>>]

(* fn next_char_pos: Some(index) of the first non-whitespace byte at or    *)
(* after pos, None as -1.                                                  *)
next_char_pos(s) ==
    LET idx == {i \in s.pos .. (Len(s.buffer) - 1) : ~is_ascii_whitespace(s.buffer[i + 1])}
    IN  IF idx = {} THEN -1
        ELSE CHOOSE i \in idx : \A j \in idx : i <= j

(* The advance_next_char that steps past the end of the buffer when only  *)
(* whitespace is left.                                                     *)
advance_next_char_past_end(s) ==
    LET p == next_char_pos(s)
    IN  [s EXCEPT !.pos = IF p = -1 THEN Len(s.buffer) + 1 ELSE p]

(* fn advance_next_char *)
advance_next_char(s) ==
    LET p == next_char_pos(s)
    IN  [s EXCEPT !.pos = IF p = -1 THEN Len(s.buffer) ELSE p]

(* fn current_char: None as "" *)
current_char(s) == IF s.pos < Len(s.buffer) THEN s.buffer[s.pos + 1] ELSE ""

(* fn is_bridge_char *)
is_bridge_char(s) == current_char(s) \in {"[", ","}

(* The parse_chunk that advances one byte further than the decoder read. *)
parse_chunk_eats_next(s) ==
    LET de == de_next(Rest(s))
    IN  CASE de.k = "Value" ->
                [s |-> [s EXCEPT !.pos = s.pos + de.offset + 1], outcome |-> OkSome(de.value)]
          [] de.k = "Eof" -> [s |-> s, outcome |-> OutEof]
          [] de.k = "Err" -> [s |-> s, outcome |-> OutErr]
          [] OTHER -> [s |-> s, outcome |-> OkNone]

(* fn parse_chunk *)
parse_chunk(s) ==
    LET de == de_next(Rest(s))
    IN  CASE de.k = "Value" ->
                [s |-> [s EXCEPT !.pos = s.pos + de.offset], outcome |-> OkSome(de.value)]
          [] de.k = "Eof" -> [s |-> s, outcome |-> OutEof]
          [] de.k = "Err" -> [s |-> s, outcome |-> OutErr]
          [] OTHER -> [s |-> s, outcome |-> OkNone]

(* The try_parse_next that takes an end of input inside a value for a     *)
(* failed decode and finishes.                                             *)
try_parse_next_eof_finishes(s) ==
    CASE s.state = CannotAdvance -> [s |-> s, outcome |-> NoOutcome]
      [] s.state = ReadingChars ->
            LET a == advance_next_char(s) IN
            IF is_bridge_char(a)
            THEN [s |-> [a EXCEPT !.pos = a.pos + 1, !.state = ReadingValue],
                  outcome |-> NoOutcome]
            ELSE IF current_char(a) = "]"
            THEN [s |-> [a EXCEPT !.state = Finished], outcome |-> OkNone]
            ELSE [s |-> a, outcome |-> NoOutcome]
      [] s.state = ReadingValue ->
            LET a == advance_next_char(s)
                r == parse_chunk(a)
            IN  CASE r.outcome.k = "OkSome" ->
                        [s |-> [r.s EXCEPT !.state = ReadingChars], outcome |-> r.outcome]
                  [] OTHER ->
                        [s |-> [r.s EXCEPT !.state = Finished], outcome |-> r.outcome]
      [] OTHER -> [s |-> s, outcome |-> NoOutcome]

(* The try_parse_next that rejects a byte that is no bridge character and *)
(* no "]" where one is expected.                                           *)
try_parse_next_rejects_other(s) ==
    CASE s.state = CannotAdvance -> [s |-> s, outcome |-> NoOutcome]
      [] s.state = ReadingChars ->
            LET a == advance_next_char(s) IN
            IF is_bridge_char(a)
            THEN [s |-> [a EXCEPT !.pos = a.pos + 1, !.state = ReadingValue],
                  outcome |-> NoOutcome]
            ELSE IF current_char(a) = "]"
            THEN [s |-> [a EXCEPT !.state = Finished], outcome |-> OkNone]
            ELSE IF current_char(a) # ""
            THEN [s |-> [a EXCEPT !.state = Finished], outcome |-> OutErr]
            ELSE [s |-> a, outcome |-> NoOutcome]
      [] s.state = ReadingValue ->
            LET a == advance_next_char(s)
                r == parse_chunk(a)
            IN  CASE r.outcome.k = "OkSome" ->
                        [s |-> [r.s EXCEPT !.state = ReadingChars], outcome |-> r.outcome]
                  [] r.outcome.k \in {"OkNone", "Err"} ->
                        [s |-> [r.s EXCEPT !.state = Finished], outcome |-> r.outcome]
                  [] OTHER -> r
      [] OTHER -> [s |-> s, outcome |-> NoOutcome]

(* fn try_parse_next *)
try_parse_next(s) ==
    CASE s.state = CannotAdvance -> [s |-> s, outcome |-> NoOutcome]
      [] s.state = ReadingChars ->
            LET a == advance_next_char(s) IN
            IF is_bridge_char(a)
            THEN [s |-> [a EXCEPT !.pos = a.pos + 1, !.state = ReadingValue],
                  outcome |-> NoOutcome]
            ELSE IF current_char(a) = "]"
            THEN [s |-> [a EXCEPT !.state = Finished], outcome |-> OkNone]
            ELSE [s |-> a, outcome |-> NoOutcome]
      [] s.state = ReadingValue ->
            LET a == advance_next_char(s)
                r == parse_chunk(a)
            IN  CASE r.outcome.k = "OkSome" ->
                        [s |-> [r.s EXCEPT !.state = ReadingChars], outcome |-> r.outcome]
                  [] r.outcome.k \in {"OkNone", "Err"} ->
                        [s |-> [r.s EXCEPT !.state = Finished], outcome |-> r.outcome]
                  [] OTHER -> r
      [] OTHER -> [s |-> s, outcome |-> NoOutcome]

----------------------------------------------------------------------------
(* Stream::poll_next, one iteration of its loop.                           *)

(* Items of the produced sequence; End is Poll::Ready(None). *)
ItemOk(v) == [k |-> "Ok", value |-> v]
ErrDecode == [k |-> "ErrDecode", value |-> <<>>]       \* Error::Serde(error)
ErrIncomplete == [k |-> "ErrIncomplete", value |-> <<>>] \* "stream ended with unparsed data"
ErrHttp == [k |-> "ErrHttp", value |-> <<>>]           \* Error::Http(e)
End == [k |-> "End", value |-> <<>>]
NoItem == [k |-> "NoItem", value |-> <<>>]

IsErr(it) == it.k \in {"ErrDecode", "ErrIncomplete", "ErrHttp"}

(* What the transport answers to one poll. *)
AnsChunk(bytes) == [t |-> "Chunk", bytes |-> bytes]
AnsPending == [t |-> "Pending", bytes |-> <<>>]
AnsErr == [t |-> "Err", bytes |-> <<>>]
AnsEnd == [t |-> "End", bytes |-> <<>>]

(* The drain that resets the cursor but leaves the consumed bytes in the  *)
(* buffer.                                                                 *)
drain_resets_only(s, th) ==
    IF th.on /\ BytePos(s) > th.limit
    THEN [s EXCEPT !.pos = 0]
    ELSE s

(* The drain that already runs when the cursor is at the limit. *)
drain_at_threshold(s, th) ==
    IF th.on /\ BytePos(s) >= th.limit
    THEN [s EXCEPT !.buffer = Rest(s), !.pos = 0]
    ELSE s

(* The drain that looks at the unconsumed bytes instead of the cursor. *)
drain_on_unconsumed(s, th) ==
    IF th.on /\ ByteCount(Rest(s)) > th.limit
    THEN [s EXCEPT !.buffer = Rest(s), !.pos = 0]
    ELSE s

(* The drain that drops one byte more than the cursor has passed. *)
drain_one_more(s, th) ==
    IF th.on /\ BytePos(s) > th.limit
    THEN [s EXCEPT !.buffer = SubSeq(s.buffer, s.pos + 2, Len(s.buffer)), !.pos = 0]
    ELSE s

(* Housekeeping: drain the buffer if we've processed a lot. *)
drain(s, th) ==
    IF th.on /\ BytePos(s) > th.limit
    THEN [s EXCEPT !.buffer = Rest(s), !.pos = 0]
    ELSE s

(* The loop that returns objects and decode errors from the parse step   *)
(* but goes on to the transport after Ok(None).                            *)
Returns_items_only(p) ==
    \/ p.outcome.k = "OkSome"
    \/ p.outcome.k = "Err"

(* The parse step of the iteration returns from poll_next. *)
Returns(p) ==
    \/ p.outcome.k = "OkSome"
    \/ p.outcome.k = "OkNone" /\ p.s.state = Finished
    \/ p.outcome.k = "Err"


(* The transport poll whose error arm returns the error but leaves the    *)
(* parser state as it is.                                                  *)
poll_transport_err_open(s, ans) ==
    CASE ans.t = "Chunk" ->
            [s |-> [s EXCEPT !.state = IF s.buffer = <<>> /\ ans.bytes # <<>>
                                       THEN ReadingChars ELSE s.state,
                             !.buffer = s.buffer \o ans.bytes],
             ret |-> "continue", item |-> NoItem, polled |-> TRUE]
      [] ans.t = "Pending" ->
            [s |-> s, ret |-> "Pending", item |-> NoItem, polled |-> TRUE]
      [] ans.t = "Err" ->
            [s |-> s, ret |-> "Ready", item |-> ErrHttp, polled |-> TRUE]
      [] OTHER ->
            IF s.state # Finished /\ s.pos < Len(s.buffer)
            THEN [s |-> s, ret |-> "Ready", item |-> ErrIncomplete, polled |-> TRUE]
            ELSE [s |-> [s EXCEPT !.state = Finished],
                  ret |-> "Ready", item |-> End, polled |-> TRUE]

(* The `match self.stream.as_mut().poll_next(cx)` arms. *)
poll_transport(s, ans) ==
    CASE ans.t = "Chunk" ->
            [s |-> [s EXCEPT !.state = IF s.buffer = <<>> /\ ans.bytes # <<>>
                                       THEN ReadingChars ELSE s.state,
                             !.buffer = s.buffer \o ans.bytes],
             ret |-> "continue", item |-> NoItem, polled |-> TRUE]
      [] ans.t = "Pending" ->
            [s |-> s, ret |-> "Pending", item |-> NoItem, polled |-> TRUE]
      [] ans.t = "Err" ->
            [s |-> [s EXCEPT !.state = Finished],
             ret |-> "Ready", item |-> ErrHttp, polled |-> TRUE]
      [] OTHER ->
            IF s.state # Finished /\ s.pos < Len(s.buffer)
            THEN [s |-> s, ret |-> "Ready", item |-> ErrIncomplete, polled |-> TRUE]
            ELSE [s |-> [s EXCEPT !.state = Finished],
                  ret |-> "Ready", item |-> End, polled |-> TRUE]

(* One iteration of the loop of poll_next with drain threshold th; ans is  *)
(* the transport's answer, used only when the iteration polls it.          *)
poll_next(s, th, ans) ==
    LET p == try_parse_next(drain(s, th)) IN
    IF Returns(p)
    THEN [s |-> p.s, ret |-> "Ready",
          item |-> CASE p.outcome.k = "OkSome" -> ItemOk(p.outcome.value)
                     [] p.outcome.k = "Err" -> ErrDecode
                     [] OTHER -> End,
          polled |-> FALSE]
    ELSE poll_transport(p.s, ans)

----------------------------------------------------------------------------
(* The response bodies the server may send. *)

Objects == {<<"{", "a", "}">>, <<"{", "b", "}">>}

(* `{"a":}`: an object with an invalid token where a value is expected *)
BadObject == <<"{", "x", "}">>

Elements == Objects \cup {BadObject}

RECURSIVE Join(_)
Join(es) ==
    IF es = <<>> THEN <<>>
    ELSE IF Len(es) = 1 THEN es[1]
    ELSE es[1] \o <<",">> \o Join(Tail(es))

(* The array of the elements es, without whitespace. *)
Array(es) == <<"[">> \o Join(es) \o <<"]">>

(* s with the whitespace w inserted after its first k bytes. *)
Insert(s, k, w) == SubSeq(s, 1, k) \o <<w>> \o SubSeq(s, k + 1, Len(s))

SeqsOf(S, n) == UNION {[1..m -> S] : m \in 0..n}

Arrays == {Array(es) : es \in SeqsOf(Elements, MaxObjs)}

Padded == UNION {{Insert(a, k, w) : k \in 0..Len(a), w \in {" ", "W"}} : a \in Arrays}

Inputs == Arrays \cup Padded \cup SeqsOf(Alphabet, MaxFree)

----------------------------------------------------------------------------------------------------------------------------------------
(* Chat of src/src/chat.rs: the history and the send calls.  A send call  *)
(* borrows the Chat mutably until its future completes or is dropped, so   *)
(* at most one request is awaited at a time.                               *)

MaxHistory == 3     \* most entries of a chat history

(* types::Role *)
User == "user"
Model == "model"

(* types::Content *)
Content(role, parts) == [role |-> role, parts |-> parts]

(* types::Part::text *)
PartText(message) == [text |-> message]

(* The messages and part lists a caller may send, and the replies. *)
Messages == {"hi", "bye"}
PartLists == {<<>>, <<PartText("hi"), PartText("bye")>>}
Replies == {"pong"}

NoRequest == [awaiting |-> FALSE, contents |-> <<>>]

(* Result<Response> as the caller sees it; NoReply before the first call. *)
NoReply == [k |-> "none", text |-> ""]
ReplyOk(text) == [k |-> "Ok", text |-> text]
ReplyErr == [k |-> "Err", text |-> ""]

(* Chat::new *)
NewChat ==
    /\ history = <<>>
    /\ request = NoRequest
    /\ reply = NoReply

(* Chat::generate_content up to its await: the request takes a clone of    *)
(* the history.                                                             *)
generate_content(h) == [awaiting |-> TRUE, contents |-> h]

(* The send_message that starts the history over with the new message. *)
send_message_resets(h, message) == <<Content(User, <<PartText(message)>>)>>

(* Chat::send_message, the push *)
send_message(h, message) == Append(h, Content(User, <<PartText(message)>>))

(* Chat::send_parted_messages, the push *)
send_parted_messages(h, parts) == Append(h, Content(User, parts))

----------------------------------------------------------------------------
(* The stream under the program's threshold, and its consumer. *)

Cur == RouteStream(buffer, pos, state)

ProgramDrain == DrainAbove(DrainThreshold)

(* format!("stream ended with unparsed data in state {:?}", self.state):   *)
(* the parts of the message of the incomplete-stream error.                *)
unparsed_msg(s) == <<"stream ended with unparsed data in state ", s.state>>

(* The next loop iteration asks the transport. *)
Polls == ~Returns(try_parse_next(drain(Cur, ProgramDrain)))

Apply(r) ==
    /\ buffer' = r.s.buffer
    /\ pos' = r.s.pos
    /\ state' = r.s.state
    /\ ret' = r.ret
    /\ out' = IF r.item = NoItem THEN out ELSE Append(out, r.item)
    /\ UNCHANGED chatvars

(* The next n bytes of the body. *)
NextBytes(n) == SubSeq(input, sent + 1, sent + n)

(* Route::stream: the RouteStream as constructed. *)
InitStream ==
    /\ input \in Inputs
    /\ sent = 0
    /\ tstate = "open"
    /\ buffer = <<>>
    /\ pos = 0
    /\ state = CannotAdvance
    /\ out = <<>>
    /\ ret = "none"
    /\ pended = FALSE
    /\ chunking = "none"
    /\ empties = FALSE
    /\ NewChat

Init == InitStream /\ alt = <<>>

(* An iteration whose parse step returns an object, the end of the        *)
(* sequence or a decode error.                                             *)
ParseReturnStep ==
    /\ ~Polls
    /\ Len(out) < MaxOut
    /\ Apply(poll_next(Cur, ProgramDrain, AnsPending))
    /\ UNCHANGED <<input, sent, tstate, pended, chunking, empties>>

(* An iteration that polls the transport and receives the next n bytes. *)
TransportChunkStep(n) ==
    /\ Polls
    /\ tstate = "open"
    /\ Apply(poll_next(Cur, ProgramDrain, AnsChunk(NextBytes(n))))
    /\ sent' = sent + n
    /\ chunking' = IF n = 0 THEN chunking
                   ELSE IF chunking = "none" THEN "one" ELSE "several"
    /\ empties' = (empties \/ n = 0)
    /\ UNCHANGED <<input, tstate, pended>>

(* An iteration that polls the transport, which has nothing yet. *)
TransportPendingStep ==
    /\ Polls
    /\ tstate = "open"
    /\ Apply(poll_next(Cur, ProgramDrain, AnsPending))
    /\ pended' = TRUE
    /\ UNCHANGED <<input, sent, tstate, chunking, empties>>

(* An iteration that polls the transport, which fails. *)
TransportErrStep ==
    /\ Polls
    /\ tstate = "open"
    /\ Len(out) < MaxOut
    /\ Apply(poll_next(Cur, ProgramDrain, AnsErr))
    /\ tstate' = "failed"
    /\ UNCHANGED <<input, sent, pended, chunking, empties>>

(* An iteration that polls the transport, which signals its end; a        *)
(* transport that has ended or failed signals the end on every later poll. *)
TransportEndStep ==
    /\ Polls
    /\ Len(out) < MaxOut
    /\ Apply(poll_next(Cur, ProgramDrain, AnsEnd))
    /\ tstate' = "ended"
    /\ UNCHANGED <<input, sent, pended, chunking, empties>>

ParseReturn == ParseReturnStep /\ UNCHANGED alt
TransportChunk == (\E n \in 0..(Len(input) - sent) : TransportChunkStep(n)) /\ UNCHANGED alt
TransportPending == TransportPendingStep /\ UNCHANGED alt
TransportErr == TransportErrStep /\ UNCHANGED alt
TransportEnd == TransportEndStep /\ UNCHANGED alt

Next ==
    \/ ParseReturn
    \/ TransportChunk
    \/ TransportPending
    \/ TransportErr
    \/ TransportEnd

Spec == Init /\ [][Next]_vars

----------------------------------------------------------------------------
(* The same stream run in step under three drain thresholds: the program's *)
(* (2048), 1 and none.  The consumer pulls until the end of the sequence;  *)
(* every run is given the same answers of the transport.                   *)

AltRun(th) == [th |-> th, s |-> RouteStream(<<>>, 0, CannotAdvance), out |-> <<>>, ret |-> "none"]

InitDrain == InitStream /\ alt = <<AltRun(DrainAbove(1)), AltRun(NoDrain)>>

AltNext(ans) ==
    [i \in DOMAIN alt |->
        LET r == poll_next(alt[i].s, alt[i].th, ans)
        IN  [th |-> alt[i].th, s |-> r.s, ret |-> r.ret,
             out |-> IF r.item = NoItem THEN alt[i].out ELSE Append(alt[i].out, r.item)]]

(* The consumer has not yet received the end of the sequence. *)
Pulling == \A i \in 1..Len(out) : out[i] # End

DrainParseReturn == Pulling /\ ParseReturnStep /\ alt' = AltNext(AnsPending)
DrainTransportChunk ==
    /\ Pulling
    /\ \E n \in 0..(Len(input) - sent) :
          TransportChunkStep(n) /\ alt' = AltNext(AnsChunk(NextBytes(n)))
DrainTransportPending == Pulling /\ TransportPendingStep /\ alt' = AltNext(AnsPending)
DrainTransportErr == Pulling /\ TransportErrStep /\ alt' = AltNext(AnsErr)
DrainTransportEnd == Pulling /\ TransportEndStep /\ alt' = AltNext(AnsEnd)

NextDrain ==
    \/ DrainParseReturn
    \/ DrainTransportChunk
    \/ DrainTransportPending
    \/ DrainTransportErr
    \/ DrainTransportEnd

SpecDrain == InitDrain /\ [][NextDrain]_vars

----------------------------------------------------------------------------
(* The RouteStream of client.rs next to the one of stream.rs.  Its         *)
(* next_char_pos, advance_next_char, current_char, is_bridge_char,         *)
(* parse_chunk and try_parse_next (client.rs:146-218) are the same text as *)
(* those of stream.rs; only the loop of poll_next differs.                 *)

(* client.rs, Stream::poll_next: one iteration of its loop.  Only          *)
(* Some(ParseOutcome::Ok(Some(response))) returns from the parse step.     *)
client_poll_next(s, th, ans) ==
    LET p == try_parse_next(drain(s, th)) IN
    IF p.outcome.k = "OkSome"
    THEN [s |-> p.s, ret |-> "Ready", item |-> ItemOk(p.outcome.value), polled |-> FALSE]
    ELSE poll_transport(p.s, ans)

(* The answers of the transport that the run of client.rs may lag behind. *)
MaxLag == 1

(* The run of client.rs: q holds the answers the transport has given to    *)
(* the run of stream.rs and not yet to this run, oldest first.             *)
ClientRun ==
    [th |-> ProgramDrain, s |-> RouteStream(<<>>, 0, CannotAdvance),
     out |-> <<>>, ret |-> "none", q |-> <<>>]

InitClient == InitStream /\ alt = <<ClientRun>>

(* The transport's answer ans is kept for the run of client.rs. *)
Keep(ans) ==
    /\ Len(alt[1].q) < MaxLag
    /\ alt' = [alt EXCEPT ![1].q = Append(@, ans)]

(* The next iteration of the run of client.rs asks the transport. *)
ClientPolls == try_parse_next(drain(alt[1].s, alt[1].th)).outcome.k # "OkSome"

(* One iteration of the loop of client.rs; when it polls the transport it  *)
(* is given the answer that the run of stream.rs was given at that poll.   *)
ClientIteration ==
    /\ Len(alt[1].out) < MaxOut
    /\ ClientPolls => alt[1].q # <<>>
    /\ LET a == alt[1]
           r == client_poll_next(a.s, a.th, IF ClientPolls THEN Head(a.q) ELSE AnsPending)
       IN  alt' = <<[th |-> a.th, s |-> r.s, ret |-> r.ret,
                     out |-> IF r.item = NoItem THEN a.out ELSE Append(a.out, r.item),
                     q |-> IF ClientPolls THEN Tail(a.q) ELSE a.q]>>
    /\ UNCHANGED <<input, sent, tstate, buffer, pos, state, out, ret, pended, chunking, empties>>
    /\ UNCHANGED chatvars

BothParseReturn == ParseReturnStep /\ UNCHANGED alt
BothTransportChunk ==
    \E n \in 0..(Len(input) - sent) : TransportChunkStep(n) /\ Keep(AnsChunk(NextBytes(n)))
BothTransportPending == TransportPendingStep /\ Keep(AnsPending)
BothTransportErr == TransportErrStep /\ Keep(AnsErr)
BothTransportEnd == TransportEndStep /\ Keep(AnsEnd)

NextClient ==
    \/ BothParseReturn
    \/ BothTransportChunk
    \/ BothTransportPending
    \/ BothTransportErr
    \/ BothTransportEnd
    \/ ClientIteration

SpecClient == InitClient /\ [][NextClient]_vars

----------------------------------------------------------------------------
(* The stream next to a second run of the same code on the same transport  *)
(* that is never kept waiting: it receives the same chunks and the same    *)
(* end or error, but no Pending.                                           *)

EagerRun ==
    [th |-> ProgramDrain, s |-> RouteStream(<<>>, 0, CannotAdvance),
     out |-> <<>>, ret |-> "none", q |-> <<>>]

InitSched == InitStream /\ alt = <<EagerRun>>

(* The next iteration of the second run asks the transport. *)
EagerPolls == ~Returns(try_parse_next(drain(alt[1].s, alt[1].th)))

(* One iteration of the loop of poll_next in the second run. *)
EagerIteration ==
    /\ Len(alt[1].out) < MaxOut
    /\ EagerPolls => alt[1].q # <<>>
    /\ LET a == alt[1]
           r == poll_next(a.s, a.th, IF EagerPolls THEN Head(a.q) ELSE AnsPending)
       IN  alt' = <<[th |-> a.th, s |-> r.s, ret |-> r.ret,
                     out |-> IF r.item = NoItem THEN a.out ELSE Append(a.out, r.item),
                     q |-> IF EagerPolls THEN Tail(a.q) ELSE a.q]>>
    /\ UNCHANGED <<input, sent, tstate, buffer, pos, state, out, ret, pended, chunking, empties>>
    /\ UNCHANGED chatvars

SchedParseReturn == ParseReturnStep /\ UNCHANGED alt
SchedTransportChunk ==
    \E n \in 0..(Len(input) - sent) : TransportChunkStep(n) /\ Keep(AnsChunk(NextBytes(n)))
SchedTransportPending == TransportPendingStep /\ UNCHANGED alt
SchedTransportErr == TransportErrStep /\ Keep(AnsErr)
SchedTransportEnd == TransportEndStep /\ Keep(AnsEnd)

NextSched ==
    \/ SchedParseReturn
    \/ SchedTransportChunk
    \/ SchedTransportPending
    \/ SchedTransportErr
    \/ SchedTransportEnd
    \/ EagerIteration

SpecSched == InitSched /\ [][NextSched]_vars

----------------------------------------------------------------------------
(* The stream on bodies with an empty element: an array in which a run of  *)
(* whitespace and a second "," follow a bridge character.                  *)

Holes ==
    UNION {{SubSeq(Array(es), 1, k) \o <<"W", ",">> \o SubSeq(Array(es), k + 1, Len(Array(es))) :
                k \in {i \in 1..Len(Array(es)) : Array(es)[i] \in {"[", ","}}} :
           es \in SeqsOf(Objects, MaxObjs)}

InitHoles ==
    /\ input \in Holes
    /\ sent = 0
    /\ tstate = "open"
    /\ buffer = <<>>
    /\ pos = 0
    /\ state = CannotAdvance
    /\ out = <<>>
    /\ ret = "none"
    /\ pended = FALSE
    /\ chunking = "none"
    /\ empties = FALSE
    /\ NewChat
    /\ alt = <<>>

SpecHoles == InitHoles /\ [][Next]_vars

----------------------------------------------------------------------------
(* The calls on a Chat.  The stream takes no part in them. *)

InitChat ==
    /\ input = <<>>
    /\ sent = 0
    /\ tstate = "open"
    /\ buffer = <<>>
    /\ pos = 0
    /\ state = CannotAdvance
    /\ out = <<>>
    /\ ret = "none"
    /\ pended = FALSE
    /\ chunking = "none"
    /\ empties = FALSE
    /\ alt = <<>>
    /\ NewChat

streamvars == <<input, sent, tstate, buffer, pos, state, out, ret, pended, chunking, empties, alt>>

(* chat.send_message(message), polled up to the await of the request *)
SendMessage ==
    /\ ~request.awaiting
    /\ Len(history) < MaxHistory
    /\ \E message \in Messages :
            /\ history' = send_message(history, message)
            /\ request' = generate_content(history')
    /\ UNCHANGED <<reply, streamvars>>

(* chat.send_parted_messages(parts), polled up to the await of the request *)
SendPartedMessages ==
    /\ ~request.awaiting
    /\ Len(history) < MaxHistory
    /\ \E parts \in PartLists :
            /\ history' = send_parted_messages(history, parts)
            /\ request' = generate_content(history')
    /\ UNCHANGED <<reply, streamvars>>

(* The request succeeds: the call returns Ok(response). *)
RequestOk ==
    /\ request.awaiting
    /\ \E r \in Replies : reply' = ReplyOk(r)
    /\ request' = NoRequest
    /\ UNCHANGED <<history, streamvars>>

(* The request fails: the call returns Err. *)
RequestErr ==
    /\ request.awaiting
    /\ reply' = ReplyErr
    /\ request' = NoRequest
    /\ UNCHANGED <<history, streamvars>>

(* The caller drops the future of the send call while it awaits. *)
DropCall ==
    /\ request.awaiting
    /\ request' = NoRequest
    /\ UNCHANGED <<history, reply, streamvars>>

(* chat.history_mut().push(..): the caller records the model's reply. *)
HistoryMutPush ==
    /\ ~request.awaiting
    /\ Len(history) < MaxHistory
    /\ reply.k = "Ok"
    /\ history' = Append(history, Content(Model, <<PartText(reply.text)>>))
    /\ UNCHANGED <<request, reply, streamvars>>

NextChat ==
    \/ SendMessage
    \/ SendPartedMessages
    \/ RequestOk
    \/ RequestErr
    \/ DropCall
    \/ HistoryMutPush

SpecChat == InitChat /\ [][NextChat]_vars

TypeOK ==
    /\ state \in ParseState
    /\ pos \in 0..Len(buffer)
    /\ sent \in 0..Len(input)

----------------------------------------------------------------------------
(* Vocabulary of the properties *)

HasEnd(o) == \E i \in 1..Len(o) : o[i] = End

(* o up to and including its first End. *)
UpToEnd(o) ==
    IF HasEnd(o)
    THEN SubSeq(o, 1, CHOOSE i \in 1..Len(o) : o[i] = End /\ \A j \in 1..(i - 1) : o[j] # End)
    ELSE o

OkItems(o) == SelectSeq(o, LAMBDA it : it.k = "Ok")
Errs(o) == SelectSeq(o, LAMBDA it : IsErr(it))

IsPrefix(a, b) == Len(a) <= Len(b) /\ a = SubSeq(b, 1, Len(a))

(* The array of es, alone or with one whitespace inserted anywhere. *)
Bodies(es) == {Array(es)} \cup {Insert(Array(es), k, w) : k \in 0..Len(Array(es)), w \in {" ", "W"}}

(* The decoded value of an element: its member bytes. *)
ValueOf(e) == SelectSeq(e, LAMBDA b : b \in {"a", "b"})

Expected(es) == [i \in 1..Len(es) |-> ItemOk(ValueOf(es[i]))]

ObjectSeqs == SeqsOf(Objects, MaxObjs)

Received == SubSeq(input, 1, sent)

(* The transport has not failed and has not ended before the whole body   *)
(* was delivered.                                                          *)
CleanTransport ==
    /\ tstate # "failed"
    /\ \A i \in 1..Len(out) : out[i] # ErrHttp
    /\ tstate = "ended" => sent = Len(input)

(* The whole body as one chunk and then the end of the transport: the     *)
(* items of a consumer that pulls until the end of the sequence.           *)
RECURSIVE PullToEnd(_, _)
PullToEnd(s, o) ==
    IF Len(o) >= MaxOut \/ HasEnd(o) THEN o
    ELSE LET r == poll_next(s, ProgramDrain, AnsEnd)
         IN  PullToEnd(r.s, IF r.item = NoItem THEN o ELSE Append(o, r.item))

OneChunk(body) ==
    PullToEnd(poll_next(RouteStream(<<>>, 0, CannotAdvance), ProgramDrain, AnsChunk(body)).s, <<>>)

----------------------------------------------------------------------------
(* C1: for a valid array of N objects, however its bytes are split into   *)
(* chunks, the consumer receives exactly the N objects in order, no error, *)
(* and then the end of the sequence.                                       *)
C1_AllObjectsInOrder ==
    \A es \in ObjectSeqs :
        (input \in Bodies(es) /\ CleanTransport) =>
            IF HasEnd(out)
            THEN UpToEnd(out) = Expected(es) \o <<End>>
            ELSE IsPrefix(out, Expected(es))

(* C2: any chunking of a well-formed array yields the items that the      *)
(* single-chunk delivery yields.                                           *)
C2_ChunkingInvariant ==
    \A es \in ObjectSeqs :
        (/\ input \in Bodies(es)
         /\ CleanTransport
         /\ ~pended
         /\ ~empties
         /\ tstate = "ended"
         /\ (HasEnd(out) \/ Len(out) = MaxOut))
        => UpToEnd(out) = OneChunk(input)

(* C3: an empty array, with optional whitespace, yields no object and no  *)
(* error, only the end of the sequence.                                    *)
C3_EmptyArrayClean ==
    (input \in Bodies(<<>>) /\ CleanTransport) =>
        \A i \in 1..Len(out) : out[i] = End

(* The received bytes are "[" and an unterminated object. *)
Unterminated == {<<"[", "{">>, <<"[", "{", "a">>, <<"[", "{", "b">>}

(* C4: when the transport ends on an unterminated object the consumer     *)
(* receives exactly one incomplete-stream error, no object, and then the   *)
(* end of the sequence.                                                    *)
C4_OneIncompleteError ==
    (/\ Received \in Unterminated
     /\ tstate = "ended"
     /\ \A i \in 1..Len(out) : out[i] # ErrHttp)
    => /\ out[1] = ErrIncomplete
       /\ \A i \in 2..Len(out) : out[i] = End

(* The elements before the first invalid one. *)
BeforeBad(es) ==
    SubSeq(es, 1, (CHOOSE j \in 1..Len(es) : es[j] = BadObject /\ \A i \in 1..(j - 1) : es[i] # BadObject) - 1)

(* C5: an array with an invalid element yields exactly one error, the     *)
(* decode error, with the cursor at the invalid value, and no object for   *)
(* that element or anything after it.                                      *)
C5_OneDecodeError ==
    \A es \in SeqsOf(Elements, MaxObjs) :
        (/\ \E j \in 1..Len(es) : es[j] = BadObject
         /\ input \in Bodies(es)
         /\ CleanTransport)
        => /\ IsPrefix(OkItems(out), Expected(BeforeBad(es)))
           /\ Len(Errs(out)) <= 1
           /\ \A i \in 1..Len(out) : IsErr(out[i]) => out[i] = ErrDecode
           /\ HasEnd(out) => Errs(UpToEnd(out)) = <<ErrDecode>>
           /\ Errs(out) # <<>> =>
                 /\ state = Finished
                 /\ current_char(Cur) = "{"
                 /\ de_next(Rest(Cur)).k = "Err"

C7_CleanEndAfterBracket ==
    [][(/\ \E es \in ObjectSeqs : input \in Bodies(es)
        /\ input[Len(input)] = "]"
        /\ sent' = Len(input)
        /\ tstate' = "ended"
        /\ \A i \in 1..Len(out) : out[i] # ErrHttp
        /\ out' # out)
       => ~IsErr(out'[Len(out')])]_vars

(* C8: after an error item every later item is the end of the sequence.   *)
C8_ErrorsTerminal ==
    \A i \in 1..Len(out) : \A j \in (i + 1)..Len(out) :
        IsErr(out[i]) => out[j] = End

(* C9: once the state is Finished it stays Finished, and every later pull *)
(* returns the end of the sequence.                                        *)
C9_FinishedAbsorbing ==
    [][state = Finished =>
          /\ state' = Finished
          /\ out' # out => out'[Len(out')] = End]_vars

(* C10: the sequence is finite.  Once the transport has signalled its end *)
(* every pull either returns the end of the sequence or moves the parser   *)
(* (cursor, buffer or state), so that only finitely many pulls can come    *)
(* before the end of the sequence.                                         *)
C10_PullsMakeProgress ==
    [][(tstate = "ended" /\ out' # out) =>
          \/ out'[Len(out')] = End
          \/ <<buffer, pos, state>>' # <<buffer, pos, state>>]_vars

----------------------------------------------------------------------------
HasHttpErr(o) == \E i \in 1..Len(o) : o[i] = ErrHttp

(* C11: the pull in which the transport fails returns that error and      *)
(* leaves the state Finished; afterwards the state stays Finished, the     *)
(* unconsumed bytes stay where they are and no object is yielded.          *)
C11_TransportErrorTerminal ==
    [][/\ TransportErr => (out' = Append(out, ErrHttp) /\ state' = Finished)
       /\ HasHttpErr(out) =>
             /\ state' = Finished
             /\ Rest(Cur)' = Rest(Cur)
             /\ out' # out => out'[Len(out')].k # "Ok"]_vars

(* The transport failed while a complete object was buffered unconsumed;  *)
(* the consumer pulled again and received the end of the sequence.         *)
C11_Witness ==
    /\ Len(out) >= 2
    /\ out[Len(out) - 1] = ErrHttp
    /\ out[Len(out)] = End
    /\ de_next(Rest(Cur)).k = "Value"

(* The last byte of s that is not whitespace, "" when there is none. *)
LastChar(s) ==
    LET idx == {i \in 1..Len(s) : ~is_ascii_whitespace(s[i])}
    IN  IF idx = {} THEN "" ELSE s[CHOOSE i \in idx : \A j \in idx : j <= i]

(* The received bytes are the start of a well-formed array, without its   *)
(* closing "]", and end in a dangling "[" or "," or inside an object.      *)
CutShort ==
    /\ \E es \in ObjectSeqs : input \in Bodies(es)
    /\ \A i \in 1..sent : input[i] # "]"
    /\ LastChar(Received) \in {"[", ",", "{", "a", "b"}

(* C12: when the transport ends on a truncated object or on a dangling    *)
(* "[" or ",", the consumer receives the incomplete-stream error before    *)
(* any end of the sequence.                                                *)
C12_TruncationIsAnError ==
    (CutShort /\ tstate = "ended" /\ ~HasHttpErr(out)) =>
        \E i \in 1..Len(UpToEnd(out)) : out[i] = ErrIncomplete

(* C13: a pull never returns Pending while a complete object is buffered  *)
(* at the cursor.                                                          *)
C13_NoPendingOnBufferedObject ==
    ret = "Pending" => ~(state = ReadingValue /\ de_next(Rest(Cur)).k = "Value")

(* sl without its leading whitespace *)
RECURSIVE SkipWs(_)
SkipWs(sl) ==
    IF sl # <<>> /\ is_ascii_whitespace(Head(sl)) THEN SkipWs(Tail(sl)) ELSE sl

(* The parse step of the next iteration, after its housekeeping. *)
ParseStep == try_parse_next(drain(Cur, ProgramDrain))

(* C14: in ReadingValue, when the bytes from the cursor on are an          *)
(* incomplete prefix of an object (the decoder reports end of input), the  *)
(* parse step leaves the state at ReadingValue, leaves the cursor at the   *)
(* first byte of the value, reports Eof and makes poll_next return nothing *)
(* of its own: the iteration polls the transport, and a chunk or a Pending *)
(* keeps the state and the unconsumed value bytes.  Once the rest of the   *)
(* object is in the buffer, the next iteration yields the object.          *)
C14_IncompletePrefixWaits ==
    [][/\ (state = ReadingValue /\ de_next(Rest(Cur)).k = "Eof") =>
            /\ ParseStep.outcome = OutEof
            /\ ParseStep.s.state = ReadingValue
            /\ Rest(ParseStep.s) = SkipWs(Rest(Cur))
            /\ out' # out => out'[Len(out')] \in {ErrHttp, ErrIncomplete}
            /\ (TransportChunk \/ TransportPending) =>
                    /\ state' = ReadingValue
                    /\ Rest(Cur)' = SkipWs(Rest(Cur)) \o SubSeq(input, sent + 1, sent')
       /\ (state = ReadingValue /\ ret = "continue" /\ de_next(Rest(Cur)).k = "Value") =>
            out' = Append(out, ItemOk(de_next(Rest(Cur)).value))]_vars

C14_Witness ==
    /\ state = ReadingValue
    /\ de_next(Rest(Cur)).k = "Eof"
    /\ pos >= 2
    /\ is_ascii_whitespace(buffer[pos])
    /\ buffer[pos + 1] = "{"
    /\ ret = "Pending"

(* C15: a successful decode in ReadingValue moves the cursor over the      *)
(* skipped whitespace and exactly the bytes of the decoded object, from    *)
(* its "{" to its "}", sets the state to ReadingChars and yields the       *)
(* object; everything after the object is still unconsumed.                *)
C15_DecodeAdvancesExactly ==
    [][(state = ReadingValue /\ de_next(Rest(Cur)).k = "Value") =>
            LET v == SkipWs(Rest(Cur))
                n == de_next(v).offset
            IN  /\ v[1] = "{" /\ v[n] = "}"
                /\ \A i \in 1..(n - 1) : v[i] # "}"
                /\ Rest(Cur)' = SubSeq(v, n + 1, Len(v))
                /\ ByteCount(Rest(Cur)) - ByteCount(Rest(Cur)') =
                        ByteCount(Rest(Cur)) - ByteCount(v) + ByteCount(SubSeq(v, 1, n))
                /\ state' = ReadingChars
                /\ out' = Append(out, ItemOk(de_next(v).value))]_vars

C15_Witness ==
    /\ out # <<>>
    /\ out[Len(out)].k = "Ok"
    /\ ret = "Ready"
    /\ state = ReadingChars
    /\ current_char(Cur) \in {",", "]"}
    /\ buffer[pos] = "}"

(* The message m has the part p. *)
Describes(m, p) == \E i \in 1..Len(m) : m[i] = p

(* C16: when the transport signals its end, the pull ends the sequence     *)
(* without an error if and only if, at that point, the state is Finished   *)
(* or the cursor is at the end of the buffer; otherwise it returns an      *)
(* error whose message gives the parser state and the number of            *)
(* unconsumed bytes.                                                        *)
C16_EndReportsStateAndLeftover ==
    [][TransportEnd =>
            LET s == ParseStep.s IN
            /\ out' = Append(out, End) <=> (s.state = Finished \/ s.pos = Len(s.buffer))
            /\ out' # Append(out, End) =>
                    /\ out' = Append(out, ErrIncomplete)
                    /\ Describes(unparsed_msg(s), s.state)
                    /\ Describes(unparsed_msg(s), ToString(ByteCount(Rest(s))))]_vars

(* C17: the chunk-arrival transition to ReadingChars fires once: a chunk   *)
(* arrival changes the parser state only when it is the first non-empty    *)
(* chunk and the state is CannotAdvance, and that arrival sets             *)
(* ReadingChars; every later arrival leaves the state as the parse step    *)
(* left it.                                                                 *)
C17_ChunkTransitionOnce ==
    [][TransportChunk =>
            /\ state' # ParseStep.s.state =>
                    /\ ParseStep.s.state = CannotAdvance
                    /\ chunking = "none" /\ chunking' = "one"
            /\ (chunking = "none" /\ chunking' = "one" /\ state = CannotAdvance) =>
                    state' = ReadingChars]_vars

(* The bytes the transport hands over in the step. *)
Arrived == SubSeq(input, sent + 1, sent')

(* C18: compaction runs at the top of an iteration, before the parse       *)
(* step, exactly when the cursor is greater than 2048: then the bytes      *)
(* before the cursor are dropped and the cursor is 0, so that the buffer   *)
(* after the iteration is the old unconsumed bytes followed by the bytes   *)
(* that arrived; otherwise nothing is dropped.  The unconsumed bytes and   *)
(* the parser state are the same before and after the compaction.          *)
C18_CompactionAboveThreshold ==
    [][LET d == drain(Cur, ProgramDrain) IN
       /\ Rest(d) = Rest(Cur)
       /\ d.state = state
       /\ BytePos(Cur) > DrainThreshold =>
            /\ d.pos = 0
            /\ Len(d.buffer) = Len(buffer) - pos
            /\ buffer' = Rest(Cur) \o Arrived
            /\ pos' = Len(Rest(Cur)) + Len(Arrived) - Len(Rest(Cur)')
       /\ BytePos(Cur) <= DrainThreshold =>
            /\ d = Cur
            /\ buffer' = buffer \o Arrived
            /\ pos' >= pos]_vars

C18_Witness ==
    /\ Len(buffer) < sent
    /\ state = ReadingValue
    /\ de_next(Rest(Cur)).k = "Value"

(* C19 as stated: in each iteration the compaction is performed if the     *)
(* number of unconsumed bytes (buffer length minus cursor) exceeds the      *)
(* threshold.                                                               *)
C19_CompactsOnUnconsumed ==
    [][ByteCount(Rest(Cur)) > DrainThreshold =>
            buffer' = Rest(Cur) \o Arrived]_vars

(* C19, amended: in each iteration the compaction is performed if the      *)
(* number of consumed bytes before the cursor exceeds the threshold,       *)
(* however few bytes are unconsumed.                                        *)
C19_CompactsOnCursor ==
    [][BytePos(Cur) > DrainThreshold =>
            /\ buffer' = Rest(Cur) \o Arrived
            /\ ByteCount(buffer') = ByteCount(buffer) - BytePos(Cur) + ByteCount(Arrived)]_vars

C19_Witness ==
    /\ Len(buffer) < sent
    /\ pos = 0
    /\ buffer # <<>>
    /\ ByteCount(buffer) <= DrainThreshold
    /\ ret = "Pending"

(* The cursor of s is inside its buffer or at its end. *)
InBuffer(s) == 0 <= s.pos /\ s.pos <= Len(s.buffer)

(* C20: in every reachable state 0 <= pos <= buffer.len(), and none of     *)
(* the steps of the next iteration (compaction, whitespace skip, bridge    *)
(* character or decode) takes the cursor past the end of the buffer.       *)
C20_CursorInBuffer ==
    /\ InBuffer(Cur)
    /\ InBuffer(drain(Cur, ProgramDrain))
    /\ state \in {ReadingChars, ReadingValue} =>
            InBuffer(advance_next_char(drain(Cur, ProgramDrain)))
    /\ InBuffer(ParseStep.s)
    /\ \A n \in 0..(Len(input) - sent) :
            InBuffer(poll_next(Cur, ProgramDrain, AnsChunk(NextBytes(n))).s)

C20_Witness ==
    /\ pos = Len(buffer)
    /\ pos > 0
    /\ buffer[pos] = "}"
    /\ state = ReadingChars
    /\ sent < Len(input)

(* The bytes received and no longer in the buffer: every received byte is  *)
(* appended to the buffer and only the compaction removes bytes.           *)
Dropped == ByteCount(SubSeq(input, 1, sent)) - ByteCount(buffer)

(* The cursor as an offset in the received byte stream. *)
AbsOffset == Dropped + BytePos(Cur)

(* C21: the absolute offset of the cursor (bytes dropped by compaction so  *)
(* far plus pos) never decreases in a step; pos itself is lowered only in  *)
(* an iteration that compacts, and the compaction lowers it by exactly     *)
(* the number of bytes it drops.                                            *)
C21_CursorNeverBackwards ==
    [][LET d == drain(Cur, ProgramDrain) IN
       /\ AbsOffset' >= AbsOffset
       /\ Dropped' >= Dropped
       /\ BytePos(Cur) - BytePos(d) = ByteCount(buffer) - ByteCount(d.buffer)
       /\ pos' < pos =>
            /\ BytePos(Cur) > DrainThreshold
            /\ Dropped' - Dropped = BytePos(Cur)
            /\ pos' >= d.pos]_vars

C21_Witness ==
    /\ Dropped > 0
    /\ pos > 0
    /\ buffer[pos] = "}"
    /\ state = ReadingChars

(* C22: in ReadingChars, when the next non-whitespace byte at or after     *)
(* the cursor is "]", the iteration sets the state to Finished and the     *)
(* pull returns the end of the sequence, no error, without polling the     *)
(* transport.                                                               *)
C22_BracketEndsInSamePull ==
    [][(state = ReadingChars /\ current_char(advance_next_char(Cur)) = "]") =>
            /\ ~Polls
            /\ ParseReturn
            /\ state' = Finished
            /\ ret' = "Ready"
            /\ out' = Append(out, End)
            /\ <<sent, tstate, pended>>' = <<sent, tstate, pended>>]_vars

C22_Witness ==
    /\ state = Finished
    /\ current_char(Cur) = "]"
    /\ out # <<>>
    /\ out[Len(out)] = End
    /\ ret = "Ready"
    /\ tstate = "open"

(* The parse step of the next iteration of the run of client.rs. *)
ClientParseStep == try_parse_next(drain(alt[1].s, alt[1].th))

(* C23: in the poll_next of client.rs, when the parse step yields a        *)
(* terminal decode error the pull returns it at once as an Err item, as    *)
(* it returns a decoded object at once.                                    *)
C23_ClientReturnsDecodeError ==
    [][ClientIteration =>
            /\ ClientParseStep.outcome.k = "OkSome" =>
                    /\ alt'[1].ret = "Ready"
                    /\ alt'[1].out = Append(alt[1].out, ItemOk(ClientParseStep.outcome.value))
            /\ ClientParseStep.outcome.k = "Err" =>
                    /\ alt'[1].ret = "Ready"
                    /\ alt'[1].out = Append(alt[1].out, ErrDecode)]_vars

(* C24: in ReadingValue, when nothing or only whitespace is buffered at    *)
(* the cursor, the parse step reports need-more-data: it does not return   *)
(* from poll_next, the state stays ReadingValue, and a chunk or a Pending  *)
(* of the transport leaves the state at ReadingValue.                      *)
C24_EmptyValueWaits ==
    [][(state = ReadingValue /\ SkipWs(Rest(Cur)) = <<>>) =>
            /\ ParseStep.s.state = ReadingValue
            /\ ~ParseReturn
            /\ (TransportChunk \/ TransportPending) => state' = ReadingValue
            /\ out' # out => (TransportErr \/ TransportEnd)]_vars

(* C25: the items depend on the bytes delivered and on where the           *)
(* transport ends or fails, not on when it answers Pending: the run and    *)
(* the run that is given the same chunks, end and error without any        *)
(* Pending yield the same items in the same order up to the end of the     *)
(* sequence, so at any moment the items of one are the first items of the  *)
(* other.                                                                   *)
C25_PendingDoesNotMatter ==
    \/ IsPrefix(UpToEnd(out), UpToEnd(alt[1].out))
    \/ IsPrefix(UpToEnd(alt[1].out), UpToEnd(out))

(* C26: the RouteStream of stream.rs and the RouteStream of client.rs,     *)
(* given the same answers of the transport, yield the same items up to     *)
(* the end of the sequence, so at any moment the items of one are the      *)
(* first items of the other.                                                *)
C26_SameItemsAsClient ==
    \/ IsPrefix(UpToEnd(alt[1].out), UpToEnd(out))
    \/ IsPrefix(UpToEnd(out), UpToEnd(alt[1].out))

(* In ReadingChars the next non-whitespace byte is none of "[", "," and    *)
(* "]".                                                                     *)
OtherByteNext ==
    /\ state = ReadingChars
    /\ SkipWs(Rest(Cur)) # <<>>
    /\ Head(SkipWs(Rest(Cur))) \notin {"[", ",", "]"}

(* C27: in ReadingChars a non-whitespace byte that is none of "[", ","     *)
(* and "]" never gives a decode error: the parse step leaves the state     *)
(* and stops the cursor on that byte and yields nothing, a chunk is only   *)
(* appended behind it, and the only report is the incomplete-stream error  *)
(* when the transport ends (or the transport's own error).                 *)
C27_OtherByteWaitsForEnd ==
    [][OtherByteNext =>
            /\ ParseStep.outcome = NoOutcome
            /\ ParseStep.s.state = ReadingChars
            /\ Rest(ParseStep.s) = SkipWs(Rest(Cur))
            /\ ~ParseReturn
            /\ (TransportChunk \/ TransportPending) =>
                    /\ state' = ReadingChars
                    /\ Rest(Cur)' = SkipWs(Rest(Cur)) \o Arrived
                    /\ out' = out
            /\ TransportEnd => (out' = Append(out, ErrIncomplete) /\ state' = ReadingChars)
            /\ TransportErr => out' = Append(out, ErrHttp)]_vars

C27_Witness ==
    /\ OtherByteNext
    /\ chunking = "several"
    /\ Len(Rest(Cur)) >= 2
    /\ out = <<ErrIncomplete>>
    /\ tstate = "ended"

(* The received bytes that the cursor has passed. *)
Consumed == SubSeq(input, 1, sent - Len(Rest(Cur)))

(* The index of the first "{" of c, 0 when it has none. *)
FirstBrace(c) ==
    IF \E i \in 1..Len(c) : c[i] = "{"
    THEN CHOOSE i \in 1..Len(c) : c[i] = "{" /\ \A j \in 1..(i - 1) : c[j] # "{"
    ELSE 0

(* c begins with the bytes of an object decoded to the first of the        *)
(* values oks, and what follows it Alternates with the other values.       *)
RECURSIVE ObjectThen(_, _)

(* c, the bytes passed after an object: up to the next object there is,    *)
(* whitespace aside, exactly one bridge character, and so on for every     *)
(* further object; the objects are decoded to the values oks in order.     *)
Alternates(c, oks) ==
    IF FirstBrace(c) = 0 THEN oks = <<>>
    ELSE /\ SelectSeq(SubSeq(c, 1, FirstBrace(c) - 1), LAMBDA b : ~is_ascii_whitespace(b))
                \in {<<"[">>, <<",">>}
         /\ ObjectThen(SubSeq(c, FirstBrace(c), Len(c)), oks)

ObjectThen(c, oks) ==
    /\ de_next(c).k = "Value"
    /\ oks # <<>>
    /\ Head(oks) = ItemOk(de_next(c).value)
    /\ Alternates(SubSeq(c, de_next(c).offset + 1, Len(c)), Tail(oks))

(* The bytes the cursor has passed hold the yielded objects oks and,       *)
(* between any two of them, exactly one bridge character.                  *)
OneBridgeBetween(c, oks) ==
    IF FirstBrace(c) = 0 THEN oks = <<>>
    ELSE ObjectThen(SubSeq(c, FirstBrace(c), Len(c)), oks)

(* C28: an object is yielded only from ReadingValue, ReadingValue is       *)
(* entered only from ReadingChars by consuming one "[" or ",", and in the  *)
(* bytes the cursor has passed every yielded object's bytes are decoded    *)
(* once, in the order of the yielded objects, with exactly one bridge      *)
(* character between any two consecutive objects.                           *)
C28_ObjectsAndBridgesAlternate ==
    [][/\ (out' # out /\ out'[Len(out')].k = "Ok") =>
                (state = ReadingValue /\ state' = ReadingChars)
       /\ (state' = ReadingValue /\ state # ReadingValue) =>
                /\ state = ReadingChars
                /\ SkipWs(SubSeq(Consumed', Len(Consumed) + 1, Len(Consumed'))) \in {<<"[">>, <<",">>}
       /\ OneBridgeBetween(Consumed, OkItems(out))']_vars

(* The iteration polls the transport. *)
TransportPolled == TransportChunk \/ TransportPending \/ TransportErr \/ TransportEnd

(* C29: once the transport has signalled its end or has yielded an error,  *)
(* poll_next does not poll it again, whatever the state and however often  *)
(* the consumer pulls; stated here for the pulls of a consumer that has    *)
(* not yet been given the end of the sequence.                              *)
C29_NoPollAfterTransportEnd ==
    [][(tstate # "open" /\ ~HasEnd(out)) => ~TransportPolled]_vars

(* C30: a call of send_message or send_parted_messages appends exactly     *)
(* one user-role Content to the end of the history before the request is   *)
(* issued, so that the request carries it, and leaves the earlier entries  *)
(* as they are; the outcome of the request, success or failure, and the    *)
(* dropping of the call change nothing in the history: the entry stays     *)
(* and the model's reply is not appended.                                   *)
C30_SendAppendsOneUserEntry ==
    [][/\ (SendMessage \/ SendPartedMessages) =>
            /\ Len(history') = Len(history) + 1
            /\ SubSeq(history', 1, Len(history)) = history
            /\ history'[Len(history')].role = User
            /\ request'.awaiting
            /\ request'.contents = history'
       /\ (RequestOk \/ RequestErr \/ DropCall) => history' = history]_vars

C30_Witness ==
    /\ Len(history) = 3
    /\ history[1].role = User
    /\ history[2].role = Model
    /\ history[3] = Content(User, <<PartText("bye")>>)
    /\ reply = ReplyErr
    /\ ~request.awaiting

====
